---- MODULE Spec2Model ----
(***************************************************************************)
(* Order routing, tick dispatch and session control of src/app.py.         *)
(*                                                                         *)
(* In Spec, SpecFeed and SpecLog every HTTP handler and the feed callback  *)
(* on_tick is one atomic action, including the strategy callbacks and the  *)
(* place_order calls nested in it; in SpecThreads the handlers run as      *)
(* threads that interleave statement by statement.  Decimal prices are     *)
(* whole rupees: the feed delivers hundredths and on_tick divides by 100;  *)
(* the raw feed prices used here are multiples of 100 so that the quotient *)
(* is exact.  Python dicts are records whose                               *)
(* DOMAIN is the set of keys present; None is the empty tuple and a        *)
(* present optional value v is <<v>>.                                      *)
(*                                                                         *)
(* A handler leaves in `last` what it was called on, the calls it made to  *)
(* the strategy, the broker and the feed, the events it emitted and its    *)
(* response; Return clears it before the next call.  The entries of        *)
(* trading_state that no handler writes (positions, pnl,                   *)
(* subscribed_symbols) and angel_client, which only /api/status reads,     *)
(* are not part of the state.                                              *)
(***************************************************************************)
EXTENDS Integers, Sequences, FiniteSets, TLC

VARIABLES
    ANGELONE_AVAILABLE,  \* import of SmartApi succeeded
    DHAN_AVAILABLE,      \* import of dhanhq succeeded
    ws_client,           \* feed client configured (not None)
    dhan_client,         \* broker client configured (not None)
    mode,                \* trading_state['mode']
    is_running,          \* trading_state['is_running']
    orders,              \* trading_state['orders']
    market_data,         \* trading_state['market_data']
    strategy,            \* trading_state['strategy']
    clock,               \* datetime.now(), in whole seconds
    last,                \* the handler call that has just returned: what it
                         \* saw, did and answered (Idle between two calls)
    threads,             \* where handlers run as threads: the statement each
                         \* thread is at and its local values
    hist                 \* what the threads have done so far (not program
                         \* state): calls begun, callbacks invoked, feed
                         \* connections, broker calls ended, records appended

vars == <<ANGELONE_AVAILABLE, DHAN_AVAILABLE, ws_client, dhan_client, mode,
          is_running, orders, market_data, strategy, clock, last, threads,
          hist>>

----------------------------------------------------------------------------
(* Bounds of the model *)

MaxCalls == 2       \* handler calls begun where handlers run as threads

MaxOrders == 1      \* length of the order log
MaxClock == 1       \* seconds that may elapse
MaxLog == 2         \* length of the order log where orders follow one another

----------------------------------------------------------------------------
(* Values *)

None == <<>>
Some(v) == <<v>>

Modes == {"paper", "live", "backtest"}

\* the mode of a start request: data.get('mode', 'paper')
RequestMode(data) == IF "mode" \in DOMAIN data THEN data.mode ELSE "paper"

StartRequests == {[mode |-> m] : m \in Modes} \cup {[other |-> "x"]}

\* a loaded StrategyRunner: which callbacks its module defines
Strategies == [hasInitialize : BOOLEAN, hasOnTick : BOOLEAN]

\* arguments of place_order
Intent(sym, qty, side, type, price) ==
    [symbol |-> sym, quantity |-> qty, side |-> side, order_type |-> type,
     price |-> price]

Intents == { Intent("RELIANCE", 1, "BUY", "LIMIT", Some(300)),
             Intent("TCS", 1, "SELL", "MARKET", None) }

\* one element of a tick batch, as the feed delivers it
Tick1 == [name |-> "RELIANCE", last_traded_price |-> 25000,
          volume_trade_for_the_day |-> 10]
Tick2 == [name |-> "RELIANCE", last_traded_price |-> 25100]

\* tick batches: one quote, and two quotes of one symbol in either order
Batches == { <<Tick1>>, <<Tick2>>, <<Tick1, Tick2>>, <<Tick2, Tick1>> }

\* a quote of a second symbol, and the batches of one or two quotes a feed
\* of both symbols delivers
Tick3 == [name |-> "TCS", last_traded_price |-> 31000,
          volume_trade_for_the_day |-> 5]
FeedTicks == {Tick1, Tick2, Tick3}
FeedBatches == {<<a>> : a \in FeedTicks} \cup (FeedTicks \X FeedTicks)
Symbols == {"RELIANCE", "TCS", "INFY"}

BrokerOutcomes == {"ok", "raise"}
BrokerOrderId == <<"DHAN", 1>>

\* what a strategy callback does when invoked: the place_order calls it makes,
\* each with the outcome of the broker call should one happen, and whether it
\* raises afterwards
PlaceCalls(n) ==
    UNION { [1..k -> [intent : Intents, broker : BrokerOutcomes]] : k \in 0..n }

Callbacks(n) == [calls : PlaceCalls(n), raises : BOOLEAN]

\* an uploaded file: request.files['file'], with the module it holds
NoFile == None
Uploads ==
    {NoFile}
    \cup {Some([ext |-> "txt"])}
    \cup {Some([ext |-> "py", raises |-> TRUE])}
    \cup {Some([ext |-> "py", raises |-> FALSE, module |-> s]) : s \in Strategies}

----------------------------------------------------------------------------
(* Events sent over the socket channel *)

log_message(message, level) ==
    [event |-> "log", message |-> message, type |-> level]

OrderUpdate(order_data) == [event |-> "order_update", data |-> order_data]

MarketDataEvent(md) == [event |-> "market_data", data |-> md]

\* the value a handler returns: the HTTP status and the message of the body
Response(status, message) == [status |-> status, message |-> message]

----------------------------------------------------------------------------
(* TradingContext.place_order *)

\* The part of the process a handler works on while it runs: the state that
\* place_order reads, the order log, and the events and calls made so far.
\* broker_up is the test "dhan_client and DHAN_AVAILABLE".
Heap(m, md, ords, now, broker_up) ==
    [mode |-> m, market_data |-> md, orders |-> ords, now |-> now,
     broker_up |-> broker_up, events |-> <<>>, calls |-> <<>>]

Truthy(opt) == opt # None /\ opt[1] # 0

PaperOrderId(now) == <<"PAPER", now>>

\* order_data as first built.  Its 'timestamp' entry, the wall clock at the
\* call, is read by no operation and is left out of the record.
OrderData(h, intent) ==
    [symbol |-> intent.symbol, quantity |-> intent.quantity,
     side |-> intent.side, order_type |-> intent.order_type,
     price |-> intent.price, mode |-> h.mode]

\* variant: the limit price is looked at before the quote
ExecutedPrice_LimitFirst(md, intent) ==
    IF Truthy(intent.price)
    THEN intent.price[1]
    ELSE IF intent.symbol \in DOMAIN md THEN md[intent.symbol].ltp ELSE 0

ExecutedPrice(md, intent) ==
    IF intent.symbol \in DOMAIN md
    THEN md[intent.symbol].ltp
    ELSE IF Truthy(intent.price) THEN intent.price[1] ELSE 0

\* variant: the status is set before the broker call and not corrected
LiveBranch_StatusBeforeCall(h, intent, broker) ==
    IF broker = "ok"
    THEN [order |-> OrderData(h, intent) @@
                    [order_id |-> BrokerOrderId, status |-> "PENDING"],
          events |-> <<log_message("Live order placed", "success")>>,
          calls |-> <<"dhan.place_order", "dhan.returned">>]
    ELSE [order |-> OrderData(h, intent) @@ [status |-> "PENDING"],
          events |-> <<log_message("Order failed", "error")>>,
          calls |-> <<"dhan.place_order", "dhan.raised">>]

\* the branch taken on the mode: the record, the log events and the calls
\* it makes.  The broker call is traced with the way it ended.
LiveBranch(h, intent, broker) ==
    IF broker = "ok"
    THEN [order |-> OrderData(h, intent) @@
                    [order_id |-> BrokerOrderId, status |-> "PENDING"],
          events |-> <<log_message("Live order placed", "success")>>,
          calls |-> <<"dhan.place_order", "dhan.returned">>]
    ELSE [order |-> OrderData(h, intent) @@ [status |-> "FAILED"],
          events |-> <<log_message("Order failed", "error")>>,
          calls |-> <<"dhan.place_order", "dhan.raised">>]

PaperBranch(h, intent) ==
    [order |-> OrderData(h, intent) @@
               [order_id |-> PaperOrderId(h.now), status |-> "EXECUTED",
                executed_price |-> ExecutedPrice(h.market_data, intent)],
     events |-> <<log_message("Paper order", "info")>>,
     calls |-> <<>>]

NoBranch(h, intent) ==
    [order |-> OrderData(h, intent), events |-> <<>>, calls |-> <<>>]

RouteOrder(h, intent, broker) ==
    IF h.mode = "live" /\ h.broker_up
    THEN LiveBranch(h, intent, broker)
    ELSE IF h.mode = "paper"
    THEN PaperBranch(h, intent)
    ELSE NoBranch(h, intent)

\* variant: append and emit happen only once a branch has set a status
place_order_AppendInBranch(h, intent, broker) ==
    LET r == RouteOrder(h, intent, broker)
    IN  IF "status" \in DOMAIN r.order
        THEN [h EXCEPT !.orders = Append(@, r.order),
                       !.events = @ \o r.events \o <<OrderUpdate(r.order)>>,
                       !.calls = @ \o <<"place_order">> \o r.calls]
        ELSE [h EXCEPT !.calls = @ \o <<"place_order">> \o r.calls]

\* variant: the record is put in front of the log
place_order_Prepend(h, intent, broker) ==
    LET r == RouteOrder(h, intent, broker)
    IN  [h EXCEPT !.orders = <<r.order>> \o @,
                  !.events = @ \o r.events \o <<OrderUpdate(r.order)>>,
                  !.calls = @ \o <<"place_order">> \o r.calls]

place_order(h, intent, broker) ==
    LET r == RouteOrder(h, intent, broker)
    IN  [h EXCEPT !.orders = Append(@, r.order),
                  !.events = @ \o r.events \o <<OrderUpdate(r.order)>>,
                  !.calls = @ \o <<"place_order">> \o r.calls]

RECURSIVE RunCallback(_, _)
RunCallback(h, calls) ==
    IF calls = <<>>
    THEN h
    ELSE RunCallback(place_order(h, Head(calls).intent, Head(calls).broker),
                     Tail(calls))

----------------------------------------------------------------------------
(* StrategyRunner *)

\* the module's callback `name` runs: it is traced, makes its place_order
\* calls and returns or raises.  [h, raised]: the heap after the call and
\* whether the call raised.
Invoke(h, name, cb) ==
    LET h1 == RunCallback([h EXCEPT !.calls = Append(@, name)], cb.calls)
    IN  [h |-> IF cb.raises
               THEN [h1 EXCEPT !.calls = Append(@, "callback.raised")]
               ELSE h1,
         raised |-> cb.raises]

StrategyRunner_initialize(h, runner, cb) ==
    IF runner.hasInitialize
    THEN Invoke(h, "initialize", cb)
    ELSE [h |-> h, raised |-> FALSE]

\* variant: the callback is called without the hasattr test
StrategyRunner_on_tick_NoHasattr(h, runner, cb) ==
    IF runner.hasOnTick
    THEN Invoke(h, "on_tick", cb)
    ELSE [h |-> h, raised |-> TRUE]

StrategyRunner_on_tick(h, runner, cb) ==
    IF runner.hasOnTick
    THEN Invoke(h, "on_tick", cb)
    ELSE [h |-> h, raised |-> FALSE]

----------------------------------------------------------------------------
(* on_tick: the market-data store *)

EmptyDict == [x \in {} |-> 0]

Get(d, key, default) == IF key \in DOMAIN d THEN d[key] ELSE default

Quote(token_data, now) ==
    [ltp |-> Get(token_data, "last_traded_price", 0) \div 100,
     volume |-> Get(token_data, "volume_trade_for_the_day", 0),
     timestamp |-> now]

\* variant: an entry the update lacks is kept from the quote stored before
StoreQuote_MergeStale(md, token_data, now) ==
    LET symbol == Get(token_data, "name", "")
        old == Get(md, symbol, EmptyDict)
        new == Quote(token_data, now)
    IN  [s \in DOMAIN md \cup {symbol} |->
            IF s = symbol
            THEN [new EXCEPT !.volume =
                     Get(token_data, "volume_trade_for_the_day",
                         Get(old, "volume", 0))]
            ELSE md[s]]

StoreQuote(md, token_data, now) ==
    LET symbol == Get(token_data, "name", "")
    IN  [s \in DOMAIN md \cup {symbol} |->
            IF s = symbol THEN Quote(token_data, now) ELSE md[s]]

RECURSIVE UpdateMarketData(_, _, _)
UpdateMarketData(md, tick, now) ==
    IF tick = <<>>
    THEN md
    ELSE UpdateMarketData(StoreQuote(md, Head(tick), now), Tail(tick), now)

\* TradingContext.get_market_data
get_market_data(md, symbol) == Get(md, symbol, EmptyDict)

----------------------------------------------------------------------------
(* The state machine *)

\* no handler call is being answered
Idle == [op |-> "idle"]

\* The threads of the process: two that serve HTTP requests (the server
\* starts one per request) and the one of the feed, which calls on_tick.
RequestThreads == {"r1", "r2"}
FeedThread == "feed"
ThreadIds == RequestThreads \cup {FeedThread}

\* a thread that is in no handler
Ready == [pc |-> "ready"]

\* nothing has been done by a thread yet
NoHistory ==
    [calls |-> 0,          \* handler calls begun
     initialized |-> 0,    \* initialize invocations on the loaded strategy
     inits |-> 0,          \* initialize invocations since the last stop
     connects |-> 0,       \* feed connections since the last stop
     started |-> 0,        \* start requests that succeeded since the last
                           \* stop
     done |-> <<>>,        \* the threads whose place_order call had its
                           \* broker call end, in that order
     appended |-> <<>>,    \* for each record of the order log, the thread
                           \* that appended it and whether it called the
                           \* broker
     emitted |-> <<>>]     \* the records sent as order_update events

\* A process in which both SDKs could be imported.  Without dhanhq the broker
\* client is never set, and without SmartApi configure_apis sets nothing: such
\* a process behaves as this one does while it is not configured.
Init ==
    /\ ANGELONE_AVAILABLE = TRUE
    /\ DHAN_AVAILABLE = TRUE
    /\ ws_client = FALSE
    /\ dhan_client = FALSE
    /\ mode = "paper"
    /\ is_running = FALSE
    /\ orders = <<>>
    /\ market_data = EmptyDict
    /\ strategy = None
    /\ clock = 0
    /\ last = Idle
    /\ threads = [t \in ThreadIds |-> Ready]
    /\ hist = NoHistory

\* time that passes before a handler runs as one step
Elapse(dt) ==
    /\ last = Idle
    /\ clock + dt <= MaxClock
    /\ clock' = clock + dt
    /\ UNCHANGED <<threads, hist>>

\* the place_order calls a callback may still make within the bound of the log
Room == MaxOrders - Len(orders)

\* A callback that is not invoked, a broker that is not called and a feed
\* that is not connected or closed have no outcome to choose: the choice is
\* then fixed, which leaves the reachable states as they are.
NoCallback == [calls |-> <<>>, raises |-> FALSE]

HasCallback(strat, name) == strat # None /\ strat[1][name]

Chosen(invoked, broker_called, cb) ==
    /\ invoked \/ cb = NoCallback
    /\ broker_called \/ \A i \in DOMAIN cb.calls : cb.calls[i].broker = "ok"

Done(op, response, h) ==
    last' = [op |-> op, response |-> response, events |-> h.events,
             calls |-> h.calls,
             pre |-> [is_running |-> is_running, orders |-> Len(orders)]]

\* on_tick has no caller to answer: what is kept of it is the batch it got
Received(tick, h) ==
    last' = [op |-> "tick", batch |-> tick, response |-> Response(0, ""),
             events |-> h.events, calls |-> h.calls,
             pre |-> [is_running |-> is_running, orders |-> Len(orders)]]

Emit(h, event) == [h EXCEPT !.events = Append(@, event)]

Call(h, name) == [h EXCEPT !.calls = Append(@, name)]

\* POST /api/config
configure_apis(outcome) ==
    LET h0 == Heap(mode, market_data, orders, clock', FALSE)
    IN  /\ outcome # "ok" => ANGELONE_AVAILABLE
        /\ outcome = "dhan_raises" => DHAN_AVAILABLE
        /\ IF ~ANGELONE_AVAILABLE
           THEN /\ Done("config", Response(400, "SmartApi not installed"), h0)
                /\ UNCHANGED <<ws_client, dhan_client>>
           ELSE IF outcome = "session_raises"
           THEN /\ Done("config", Response(400, "exception"),
                        Emit(h0, log_message("Config failed", "error")))
                /\ UNCHANGED <<ws_client, dhan_client>>
           ELSE IF DHAN_AVAILABLE /\ outcome = "dhan_raises"
           THEN /\ ws_client' = TRUE
                /\ Done("config", Response(400, "exception"),
                        Emit(h0, log_message("Config failed", "error")))
                /\ UNCHANGED dhan_client
           ELSE /\ ws_client' = TRUE
                /\ dhan_client' = (DHAN_AVAILABLE \/ dhan_client)
                /\ Done("config", Response(200, ""),
                        Emit(h0, log_message("APIs configured successfully",
                                             "success")))
        /\ UNCHANGED <<ANGELONE_AVAILABLE, DHAN_AVAILABLE, mode, is_running,
                       orders, market_data, strategy>>

\* the response that rejects an upload, or None when the file is taken
UploadRejection(file) ==
    IF file = NoFile
    THEN Some(Response(400, "No file provided"))
    ELSE IF file[1].ext # "py"
    THEN Some(Response(400, "Invalid Python file"))
    ELSE None

\* trading_state['strategy'] after StrategyRunner(strategy_path) was tried on
\* a file that was taken: the constructor raises when the module does
\* variant: a load that raises leaves no strategy behind
LoadedStrategy_ClearedOnFailure(file, old) ==
    IF file[1].raises THEN None ELSE Some(file[1].module)

\* variant: a load that raises leaves the runner of the module that failed
LoadedStrategy_HalfLoaded(file, old) ==
    IF file[1].raises
    THEN Some([hasInitialize |-> FALSE, hasOnTick |-> FALSE])
    ELSE Some(file[1].module)

LoadedStrategy(file, old) ==
    IF file[1].raises THEN old ELSE Some(file[1].module)

\* POST /api/strategy/upload
upload_strategy(file) ==
    LET h0 == Heap(mode, market_data, orders, clock', FALSE)
        rejection == UploadRejection(file)
    IN  /\ IF rejection # None
           THEN /\ Done("upload", rejection[1], h0)
                /\ UNCHANGED strategy
           ELSE /\ strategy' = LoadedStrategy(file, strategy)
                /\ IF file[1].raises
                   THEN Done("upload", Response(400, "exception"),
                             Emit(h0, log_message("Strategy load failed",
                                                  "error")))
                   ELSE Done("upload", Response(200, ""),
                             Emit(h0, log_message("Strategy loaded",
                                                  "success")))
        /\ UNCHANGED <<ANGELONE_AVAILABLE, DHAN_AVAILABLE, ws_client,
                       dhan_client, mode, is_running, orders, market_data>>

\* the checks start_trading makes before it starts: the response that rejects
\* the request, or None when the request passes them
\* variants: one of the two checks is missing
StartRejection_NoStrategyCheck(strat, running) ==
    IF running THEN Some(Response(400, "Already running")) ELSE None

StartRejection_NoRunningCheck(strat, running) ==
    IF strat = None THEN Some(Response(400, "No strategy loaded")) ELSE None

StartRejection(strat, running) ==
    IF strat = None
    THEN Some(Response(400, "No strategy loaded"))
    ELSE IF running
    THEN Some(Response(400, "Already running"))
    ELSE None

\* trading_state['mode'] once start_trading has returned
StartMode(data, old) == RequestMode(data)

\* variant: the mode is not looked at
FeedWanted_AnyMode(ws, m) == ws

\* whether start_trading connects the feed
FeedWanted(ws, m) == ws /\ m # "backtest"

\* POST /api/trading/start
start_trading(data, cb, connect_raises) ==
    LET m == StartMode(data, mode)
        rejection == StartRejection(strategy, is_running)
        h0 == Heap(m, market_data, orders, clock',
                   dhan_client /\ DHAN_AVAILABLE)
        \* calling initialize on None raises, inside the try block
        init == IF strategy = None
                THEN [h |-> h0, raised |-> TRUE]
                ELSE StrategyRunner_initialize(h0, strategy[1], cb)
        h1 == IF ~init.raised /\ FeedWanted(ws_client, m)
              THEN Call(Call(init.h, "connect"),
                        IF connect_raises THEN "connect.raised"
                        ELSE "connect.returned")
              ELSE init.h
        raised == init.raised \/ (FeedWanted(ws_client, m) /\ connect_raises)
    IN  /\ Chosen(rejection = None /\ HasCallback(strategy, "hasInitialize"),
                  m = "live" /\ h0.broker_up, cb)
        /\ connect_raises =>
              rejection = None /\ ~init.raised /\ FeedWanted(ws_client, m)
        /\ mode' = m
        /\ IF rejection # None
           THEN /\ Done("start", rejection[1], h0)
                /\ UNCHANGED <<is_running, orders>>
           ELSE IF raised
           THEN /\ is_running' = FALSE
                /\ orders' = h1.orders
                /\ Done("start", Response(400, "exception"),
                        Emit(h1, log_message("Start failed", "error")))
           ELSE /\ is_running' = TRUE
                /\ orders' = h1.orders
                /\ Done("start", Response(200, ""),
                        Emit(h1, log_message("Trading started", "success")))
        /\ UNCHANGED <<ANGELONE_AVAILABLE, DHAN_AVAILABLE, ws_client,
                       dhan_client, market_data, strategy>>

\* whether stop_trading closes the feed connection
CloseWanted(ws, running) == ws

\* the events stop_trading emits
StopEvents(running) == <<log_message("Trading stopped", "warning")>>

\* variant: an exception of close_connection reaches the caller
StopResponse_Propagates(close_raised) ==
    IF close_raised THEN Response(500, "exception") ELSE Response(200, "")

\* the answer of stop_trading: "except: pass" around close_connection
StopResponse(close_raised) == Response(200, "")

\* POST /api/trading/stop
stop_trading(close_raises) ==
    LET h0 == Heap(mode, market_data, orders, clock', FALSE)
        h1 == IF CloseWanted(ws_client, is_running)
              THEN Call(Call(h0, "close_connection"),
                        IF close_raises THEN "close.raised"
                        ELSE "close.returned")
              ELSE h0
    IN  /\ close_raises => CloseWanted(ws_client, is_running)
        /\ is_running' = FALSE
        /\ Done("stop", StopResponse(close_raises),
                [h1 EXCEPT !.events = @ \o StopEvents(is_running)])
        /\ UNCHANGED <<ANGELONE_AVAILABLE, DHAN_AVAILABLE, ws_client,
                       dhan_client, mode, orders, market_data, strategy>>

\* variant: is_running is not looked at
Dispatch_IgnoresRunning(running, strat) == strat # None

\* whether on_tick hands the batch to the strategy
Dispatch(running, strat) == running /\ strat # None

\* variant: the strategy is handed the batch before its quotes are stored
on_tick_DispatchFirst(tick, cb) ==
    LET md == UpdateMarketData(market_data, tick, clock')
        h0 == Heap(mode, market_data, orders, clock',
                   dhan_client /\ DHAN_AVAILABLE)
        run == IF Dispatch(is_running, strategy)
               THEN StrategyRunner_on_tick(h0, strategy[1], cb)
               ELSE [h |-> h0, raised |-> FALSE]
    IN  /\ Chosen(Dispatch(is_running, strategy)
                     /\ HasCallback(strategy, "hasOnTick"),
                  mode = "live" /\ h0.broker_up, cb)
        /\ market_data' = md
        /\ orders' = run.h.orders
        /\ IF run.raised
           THEN Received(tick, Emit(run.h, log_message("Tick error", "error")))
           ELSE Received(tick, Emit(run.h, MarketDataEvent(md)))
        /\ UNCHANGED <<ANGELONE_AVAILABLE, DHAN_AVAILABLE, ws_client,
                       dhan_client, mode, is_running, strategy>>

\* the feed callback on_tick(ws, tick)
on_tick(tick, cb) ==
    LET md == UpdateMarketData(market_data, tick, clock')
        h0 == Heap(mode, md, orders, clock', dhan_client /\ DHAN_AVAILABLE)
        run == IF Dispatch(is_running, strategy)
               THEN StrategyRunner_on_tick(h0, strategy[1], cb)
               ELSE [h |-> h0, raised |-> FALSE]
    IN  /\ Chosen(Dispatch(is_running, strategy)
                     /\ HasCallback(strategy, "hasOnTick"),
                  mode = "live" /\ h0.broker_up, cb)
        /\ market_data' = md
        /\ orders' = run.h.orders
        /\ IF run.raised
           THEN Received(tick, Emit(run.h, log_message("Tick error", "error")))
           ELSE Received(tick, Emit(run.h, MarketDataEvent(md)))
        /\ UNCHANGED <<ANGELONE_AVAILABLE, DHAN_AVAILABLE, ws_client,
                       dhan_client, mode, is_running, strategy>>

\* Time passes before the handlers that read the clock; before the others it
\* would only be time that passes before the next of these.
Configure ==
    \E outcome \in {"ok", "session_raises", "dhan_raises"} :
        Elapse(0) /\ configure_apis(outcome)

Upload ==
    \E file \in Uploads : Elapse(0) /\ upload_strategy(file)

Start ==
    \E dt \in 0..1, data \in StartRequests, cb \in Callbacks(Room),
       connect_raises \in BOOLEAN :
        Elapse(dt) /\ start_trading(data, cb, connect_raises)

Stop ==
    \E close_raises \in BOOLEAN : Elapse(0) /\ stop_trading(close_raises)

Tick ==
    \E dt \in 0..1, tick \in Batches, cb \in Callbacks(Room) :
        Elapse(dt) /\ on_tick(tick, cb)

\* the response is delivered and the events are sent: the next call may come
Return ==
    /\ last # Idle
    /\ last' = Idle
    /\ UNCHANGED <<ANGELONE_AVAILABLE, DHAN_AVAILABLE, ws_client, dhan_client,
                   mode, is_running, orders, market_data, strategy, clock,
                   threads, hist>>

Next == Configure \/ Upload \/ Start \/ Stop \/ Tick \/ Return

Spec == Init /\ [][Next]_vars

\* The feed of two symbols while no session runs: on_tick only stores the
\* quotes, and the handlers that start no session come in between.
FeedTick ==
    \E dt \in 0..1, tick \in FeedBatches :
        Elapse(dt) /\ on_tick(tick, NoCallback)

NextFeed == Configure \/ Upload \/ Stop \/ FeedTick \/ Return

SpecFeed == Init /\ [][NextFeed]_vars

\* Sessions of one strategy that defines both callbacks, without broker and
\* feed client, fed one batch: the order log may grow to MaxLog records.
BothCallbacks ==
    Some([ext |-> "py", raises |-> FALSE,
          module |-> [hasInitialize |-> TRUE, hasOnTick |-> TRUE]])

LogRoom == MaxLog - Len(orders)

UploadBoth == Elapse(0) /\ upload_strategy(BothCallbacks)

StartLog ==
    \E dt \in 0..1, data \in StartRequests, cb \in Callbacks(LogRoom) :
        Elapse(dt) /\ start_trading(data, cb, FALSE)

TickLog ==
    \E dt \in 0..1, cb \in Callbacks(LogRoom) :
        Elapse(dt) /\ on_tick(<<Tick1>>, cb)

NextLog == UploadBoth \/ StartLog \/ Stop \/ TickLog \/ Return

SpecLog == Init /\ [][NextLog]_vars

----------------------------------------------------------------------------
(* Reading the call that has just returned *)

RECURSIVE Count(_, _)
Count(seq, x) ==
    IF seq = <<>> THEN 0
    ELSE (IF Head(seq) = x THEN 1 ELSE 0) + Count(Tail(seq), x)

Has(seq, x) == \E i \in DOMAIN seq : seq[i] = x

\* the greatest element of a non-empty set of numbers
Latest(S) == CHOOSE i \in S : \A j \in S : j <= i

\* the positions of a batch that carry a quote of the symbol
Updates(batch, symbol) ==
    {i \in DOMAIN batch : Get(batch[i], "name", "") = symbol}

\* the last call is one within which place_order can run
Routing == last.op \in {"start", "tick"}

\* the records the last call appended to the order log
Placed == SubSeq(orders, last.pre.orders + 1, Len(orders))

\* the place_order calls the last call made
PlaceCount == Count(last.calls, "place_order")

IsOrderUpdate(e) == e.event = "order_update"

IsBrokerOutcome(c) == c \in {"dhan.returned", "dhan.raised"}

HasLog(message) ==
    \E i \in DOMAIN last.events :
        /\ last.events[i].event = "log"
        /\ last.events[i].message = message

BrokerUp == dhan_client /\ DHAN_AVAILABLE

----------------------------------------------------------------------------
(* Handlers as threads *)

(***************************************************************************)
(* The server runs every request in a thread of its own and the feed calls *)
(* on_tick in another (async_mode='threading').  Here a handler is a       *)
(* sequence of steps, one per statement that reads or writes what the      *)
(* threads share; what a thread does on its own between two such           *)
(* statements belongs to the step that follows.  The strategy is one that  *)
(* defines both callbacks; a callback returns at once, places one order or *)
(* looks up a quote.  `last` is not used: what the threads did is in       *)
(* `hist`.                                                                 *)
(***************************************************************************)

\* The process after /api/config and an upload have succeeded and a quote
\* has arrived, before a paper session is started or once it is running: its
\* start has then invoked initialize and connected the feed.
InitThreads ==
    /\ ANGELONE_AVAILABLE = TRUE
    /\ DHAN_AVAILABLE = TRUE
    /\ ws_client = TRUE
    /\ dhan_client = TRUE
    /\ mode = "paper"
    /\ is_running \in BOOLEAN
    /\ orders = <<>>
    /\ market_data = StoreQuote(EmptyDict, Tick1, 0)
    /\ strategy = LoadedStrategy(BothCallbacks, None)
    /\ clock = 0
    /\ last = Idle
    /\ threads = [t \in ThreadIds |-> Ready]
    /\ hist = IF is_running
              THEN [NoHistory EXCEPT !.initialized = 1, !.inits = 1,
                                     !.connects = 1, !.started = 1]
              ELSE NoHistory

ThreadModes == {[mode |-> m] : m \in Modes}

\* what a callback does once invoked
InitializeBodies == {"return", "place", "read"}
OnTickBodies == {"return", "place"}

\* the order a callback places
BodyIntent(name) ==
    IF name = "initialize"
    THEN Intent("TCS", 1, "SELL", "MARKET", None)
    ELSE Intent("RELIANCE", 1, "BUY", "LIMIT", Some(300))

\* the place_order calls that have not appended yet
InFlight ==
    {t \in ThreadIds :
        /\ "place" \in DOMAIN threads[t]
        /\ threads[t].place.pc # "emit"}

PlaceRoom == MaxLog - Len(orders) - Cardinality(InFlight)

\* thread t goes on as rec
Goto(t, rec) == threads' = [threads EXCEPT ![t] = rec]

\* thread t without its local value `name`
Without(t, name) == [a \in DOMAIN threads[t] \ {name} |-> threads[t][a]]

\* thread t begins to serve a call.  Which of the request threads serves a
\* request makes no difference: the second serves one only while the first
\* is busy.
Begins(t) ==
    /\ threads[t] = Ready
    /\ hist.calls < MaxCalls
    /\ t = "r2" => threads["r1"] # Ready

\* the body of the callback `name` begins in thread t, which is then at pc
InvokeBody(t, name, body, pc) ==
    /\ body = "place" => PlaceRoom > 0
    /\ Goto(t, IF body = "place"
               THEN [op |-> threads[t].op, pc |-> pc, cb |-> name,
                     place |-> [pc |-> "build", intent |-> BodyIntent(name)]]
               ELSE IF body = "read"
               THEN [op |-> threads[t].op, pc |-> pc, cb |-> name,
                     read |-> "RELIANCE"]
               ELSE [op |-> threads[t].op, pc |-> pc, cb |-> name])

\* the callback of thread t has returned, or none was invoked
BodyDone(t) ==
    /\ "place" \notin DOMAIN threads[t]
    /\ "read" \notin DOMAIN threads[t]

\* a thread is in place_order at the statement pc
InPlaceAt(th, pc) ==
    /\ "place" \in DOMAIN th
    /\ th.place.pc = pc

PlaceAt(t, pc) == InPlaceAt(threads[t], pc)

(* TradingContext.place_order, statement by statement *)

\* order_data is built: it takes the mode as it is now
place_build(t) ==
    LET p == threads[t].place
    IN  /\ PlaceAt(t, "build")
        /\ Goto(t, [threads[t] EXCEPT !.place =
                      [pc |-> "route", intent |-> p.intent, broker |-> FALSE,
                       order |-> OrderData([mode |-> mode], p.intent)]])
        /\ UNCHANGED <<mode, is_running, orders, market_data, strategy,
                       clock, hist>>

\* if mode == 'live' and dhan_client and DHAN_AVAILABLE: the broker is called
place_route(t) ==
    /\ PlaceAt(t, "route")
    /\ Goto(t, IF mode = "live" /\ BrokerUp
               THEN [threads[t] EXCEPT !.place.pc = "broker",
                                       !.place.broker = TRUE]
               ELSE [threads[t] EXCEPT !.place.pc = "route_paper"])
    /\ UNCHANGED <<mode, is_running, orders, market_data, strategy, clock,
                   hist>>

\* the broker call ends and the try block sets what it yields
place_broker(t, outcome) ==
    LET p == threads[t].place
        branch == LiveBranch([mode |-> p.order.mode], p.intent, outcome)
    IN  /\ PlaceAt(t, "broker")
        /\ Goto(t, [threads[t] EXCEPT !.place.pc = "append",
                                      !.place.order = branch.order])
        /\ hist' = [hist EXCEPT !.done = Append(@, t)]
        /\ UNCHANGED <<mode, is_running, orders, market_data, strategy,
                       clock>>

\* elif mode == 'paper': the paper branch, or no branch
place_route_paper(t) ==
    LET p == threads[t].place
        h == Heap(p.order.mode, market_data, orders, clock, BrokerUp)
    IN  /\ PlaceAt(t, "route_paper")
        /\ Goto(t, [threads[t] EXCEPT
                      !.place.pc = "append",
                      !.place.order = IF mode = "paper"
                                      THEN PaperBranch(h, p.intent).order
                                      ELSE @])
        /\ UNCHANGED <<mode, is_running, orders, market_data, strategy,
                       clock, hist>>

\* variant: a call that finds the session stopped gives up
place_append_UnlessStopped(t) ==
    LET p == threads[t].place
    IN  /\ PlaceAt(t, "append")
        /\ IF is_running
           THEN /\ orders' = Append(orders, p.order)
                /\ hist' = [hist EXCEPT !.appended =
                              Append(@, [thread |-> t, broker |-> p.broker])]
                /\ Goto(t, [threads[t] EXCEPT !.place.pc = "emit"])
           ELSE /\ Goto(t, Without(t, "place"))
                /\ UNCHANGED <<orders, hist>>
        /\ UNCHANGED <<mode, is_running, market_data, strategy, clock>>

\* trading_state['orders'].append(order_data)
place_append(t) ==
    LET p == threads[t].place
    IN  /\ PlaceAt(t, "append")
        /\ orders' = Append(orders, p.order)
        /\ hist' = [hist EXCEPT !.appended =
                      Append(@, [thread |-> t, broker |-> p.broker])]
        /\ Goto(t, [threads[t] EXCEPT !.place.pc = "emit"])
        /\ UNCHANGED <<mode, is_running, market_data, strategy, clock>>

\* socketio.emit('order_update', order_data); return order_data
place_emit(t) ==
    /\ PlaceAt(t, "emit")
    /\ Goto(t, Without(t, "place"))
    /\ hist' = [hist EXCEPT !.emitted = Append(@, threads[t].place.order)]
    /\ UNCHANGED <<mode, is_running, orders, market_data, strategy, clock>>

\* context.get_market_data(symbol) in a callback: the callback then holds
\* the quote until it returns
callback_read(t) ==
    /\ "read" \in DOMAIN threads[t]
    /\ Goto(t, Without(t, "read") @@
               [seen |-> get_market_data(market_data, threads[t].read)])
    /\ UNCHANGED <<mode, is_running, orders, market_data, strategy, clock,
                   hist>>

(* start_trading, statement by statement *)

\* trading_state['mode'] = data.get('mode', 'paper')
start_set_mode(t, data) ==
    /\ Begins(t)
    /\ t \in RequestThreads
    /\ mode' = StartMode(data, mode)
    /\ Goto(t, [op |-> "start", pc |-> "check"])
    /\ hist' = [hist EXCEPT !.calls = @ + 1]
    /\ UNCHANGED <<is_running, orders, market_data, strategy, clock>>

\* the two checks: the request is answered with 400 or goes on
start_check(t) ==
    /\ threads[t].pc = "check"
    /\ Goto(t, IF StartRejection(strategy, is_running) # None
               THEN Ready
               ELSE [threads[t] EXCEPT !.pc = "set_running"])
    /\ UNCHANGED <<mode, is_running, orders, market_data, strategy, clock,
                   hist>>

\* trading_state['is_running'] = True
start_set_running(t) ==
    /\ threads[t].pc = "set_running"
    /\ is_running' = TRUE
    /\ Goto(t, [threads[t] EXCEPT !.pc = "initialize"])
    /\ UNCHANGED <<mode, orders, market_data, strategy, clock, hist>>

\* trading_state['strategy'].initialize(context): the callback is invoked
start_initialize(t, body) ==
    /\ threads[t].pc = "initialize"
    /\ IF HasCallback(strategy, "hasInitialize")
       THEN /\ InvokeBody(t, "initialize", body, "connect")
            /\ hist' = [hist EXCEPT !.initialized = @ + 1, !.inits = @ + 1]
       ELSE /\ body = "return"
            /\ Goto(t, [threads[t] EXCEPT !.pc = "connect"])
            /\ UNCHANGED hist
    /\ UNCHANGED <<mode, is_running, orders, market_data, strategy, clock>>

\* initialize has returned: the feed is connected if wanted, and the request
\* is answered, with success or, when connect raises, from the except branch
start_connect(t, connect_raises) ==
    /\ threads[t].pc = "connect"
    /\ BodyDone(t)
    /\ connect_raises => FeedWanted(ws_client, mode)
    /\ is_running' = (IF connect_raises THEN FALSE ELSE is_running)
    /\ hist' = [hist EXCEPT
                  !.connects = IF FeedWanted(ws_client, mode) /\ ~connect_raises
                               THEN @ + 1 ELSE @,
                  !.started = IF connect_raises THEN @ ELSE @ + 1]
    /\ Goto(t, Ready)
    /\ UNCHANGED <<mode, orders, market_data, strategy, clock>>

(* stop_trading: it shares one statement with the other threads *)

\* trading_state['is_running'] = False; then close_connection, the log
\* message and the answer
stop_set_running(t) ==
    /\ Begins(t)
    /\ t \in RequestThreads
    /\ is_running' = FALSE
    /\ hist' = [hist EXCEPT !.calls = @ + 1, !.inits = 0, !.connects = 0,
                            !.started = 0]
    /\ UNCHANGED <<mode, orders, market_data, strategy, clock, threads>>

(* upload_strategy: it shares one statement with the other threads *)

\* trading_state['strategy'] = StrategyRunner(strategy_path)
upload_assign(t) ==
    /\ Begins(t)
    /\ t \in RequestThreads
    /\ strategy' = LoadedStrategy(BothCallbacks, strategy)
    /\ hist' = [hist EXCEPT !.calls = @ + 1, !.initialized = 0]
    /\ UNCHANGED <<mode, is_running, orders, market_data, clock, threads>>

(* on_tick, statement by statement *)

\* variant: the entry of the symbol is updated in place, key by key
QuoteWrites_KeyByKey == <<{"ltp"}, {"volume"}, {"timestamp"}>>

\* the keys of a quote that one store statement writes: the dict is built
\* first and stored with one assignment
QuoteWrites == <<{"ltp", "volume", "timestamp"}>>

\* the store once the k-th store statement has run: the keys it writes are
\* those of the new quote, the others are as they were
WriteQuote(md, token_data, now, k) ==
    LET symbol == Get(token_data, "name", "")
        old == Get(md, symbol, EmptyDict)
        new == Quote(token_data, now)
        keys == QuoteWrites[k]
        entry == [f \in DOMAIN old \cup keys |->
                     IF f \in keys THEN new[f] ELSE old[f]]
    IN  [s \in DOMAIN md \cup {symbol} |-> IF s = symbol THEN entry ELSE md[s]]

\* the batches the feed thread delivers
ThreadBatches == { <<Tick1>>, <<Tick2>>, <<Tick2, Tick1>> }

\* where on_tick is once the k-th store statement of the first quote of
\* tick has run: at the next store statement, or past the for loop
AfterWrite(tick, now, k) ==
    IF k < Len(QuoteWrites)
    THEN [op |-> "tick", pc |-> "store", tick |-> tick, now |-> now,
          k |-> k + 1]
    ELSE IF Len(tick) > 1
         THEN [op |-> "tick", pc |-> "store", tick |-> Tail(tick),
               now |-> now, k |-> 1]
         ELSE [op |-> "tick", pc |-> "dispatch"]

\* the feed calls on_tick with a batch: for the first quote the dict is
\* built and trading_state['market_data'][symbol] = {...} stores it
tick_store(t, tick, dt) ==
    /\ Begins(t)
    /\ t = FeedThread
    /\ clock + dt <= MaxClock
    /\ clock' = clock + dt
    /\ market_data' = WriteQuote(market_data, Head(tick), clock', 1)
    /\ Goto(t, AfterWrite(tick, clock', 1))
    /\ hist' = [hist EXCEPT !.calls = @ + 1]
    /\ UNCHANGED <<mode, is_running, orders, strategy>>

\* the store statement of a later turn of the for loop
tick_store_next(t) ==
    LET th == threads[t]
    IN  /\ th.pc = "store"
        /\ market_data' = WriteQuote(market_data, Head(th.tick), th.now, th.k)
        /\ Goto(t, AfterWrite(th.tick, th.now, th.k))
        /\ UNCHANGED <<mode, is_running, orders, strategy, clock, hist>>

\* if is_running and strategy: strategy.on_tick(context, tick)
tick_dispatch(t, body) ==
    /\ threads[t].pc = "dispatch"
    /\ IF Dispatch(is_running, strategy) /\ HasCallback(strategy, "hasOnTick")
       THEN InvokeBody(t, "on_tick", body, "emit")
       ELSE /\ body = "return"
            /\ Goto(t, [threads[t] EXCEPT !.pc = "emit"])
    /\ UNCHANGED <<mode, is_running, orders, market_data, strategy, clock,
                   hist>>

\* socketio.emit('market_data', ...): on_tick returns
tick_emit(t) ==
    /\ threads[t].pc = "emit"
    /\ BodyDone(t)
    /\ Goto(t, Ready)
    /\ UNCHANGED <<mode, is_running, orders, market_data, strategy, clock,
                   hist>>

(* The threads of the process *)

ThreadFrame ==
    UNCHANGED <<ANGELONE_AVAILABLE, DHAN_AVAILABLE, ws_client, dhan_client,
                last>>

PlaceStep ==
    \E t \in ThreadIds :
        /\ ThreadFrame
        /\ \/ place_build(t)
           \/ place_route(t)
           \/ \E outcome \in BrokerOutcomes : place_broker(t, outcome)
           \/ place_route_paper(t)
           \/ place_append(t)
           \/ place_emit(t)

CallbackStep == \E t \in ThreadIds : ThreadFrame /\ callback_read(t)

StartStep ==
    \E t \in RequestThreads :
        /\ ThreadFrame
        /\ \/ \E data \in ThreadModes : start_set_mode(t, data)
           \/ start_check(t)
           \/ start_set_running(t)
           \/ \E body \in InitializeBodies : start_initialize(t, body)
           \/ \E connect_raises \in BOOLEAN : start_connect(t, connect_raises)

StopStep == \E t \in RequestThreads : ThreadFrame /\ stop_set_running(t)

UploadStep == \E t \in RequestThreads : ThreadFrame /\ upload_assign(t)

TickStep ==
    /\ ThreadFrame
    /\ \/ \E tick \in ThreadBatches, dt \in 0..1 :
             tick_store(FeedThread, tick, dt)
       \/ tick_store_next(FeedThread)
       \/ \E body \in OnTickBodies : tick_dispatch(FeedThread, body)
       \/ tick_emit(FeedThread)

NextThreads ==
    PlaceStep \/ CallbackStep \/ StartStep \/ StopStep \/ UploadStep
    \/ TickStep

SpecThreads == InitThreads /\ [][NextThreads]_vars

\* a thread that is in place_order is scheduled again: no thread waits for
\* another, and the broker call ends
SpecThreadsFair == SpecThreads /\ WF_vars(PlaceStep)

----------------------------------------------------------------------------
(* The claims *)

\* C1: every place_order call made in paper mode appends exactly one record;
\* its status is EXECUTED and its executed price is the last price of the
\* stored quote of its symbol if there is one, else the limit price passed if
\* one was passed, else 0.
C1_PaperExecution ==
    (Routing /\ mode = "paper") =>
        /\ Len(orders) = last.pre.orders + PlaceCount
        /\ \A i \in DOMAIN Placed :
              LET o == Placed[i]
              IN  /\ {"status", "executed_price"} \subseteq DOMAIN o
                  /\ o.status = "EXECUTED"
                  /\ o.executed_price =
                        IF o.symbol \in DOMAIN market_data
                        THEN market_data[o.symbol].ltp
                        ELSE IF o.price # None THEN o.price[1] ELSE 0

\* a paper order with a limit price was placed for a symbol that has a quote
C1_Witness ==
    /\ Routing /\ mode = "paper" /\ PlaceCount > 0
    /\ \E i \in DOMAIN Placed :
          /\ Placed[i].symbol \in DOMAIN market_data
          /\ Placed[i].price # None

\* C2: every place_order call, in every mode and whatever its outcome, grows
\* the order log by exactly one record and emits exactly one order_update
\* event, which carries that record.
C2_OneRecordOneEvent ==
    Routing =>
        LET updates == SelectSeq(last.events, IsOrderUpdate)
        IN  /\ Len(orders) = last.pre.orders + PlaceCount
            /\ Len(updates) = PlaceCount
            /\ \A i \in DOMAIN updates : updates[i].data = Placed[i]

\* place_order ran in a mode and state where it takes neither branch
C2_Witness ==
    /\ Routing /\ PlaceCount > 0
    /\ mode = "live" /\ ~BrokerUp
    /\ Len(Placed) = PlaceCount

\* C3: a place_order call in live mode without a broker client appends one
\* record with status FAILED and reports an error message.
C3_UnavailableBrokerFails ==
    (Routing /\ mode = "live" /\ ~BrokerUp) =>
        /\ Len(orders) = last.pre.orders + PlaceCount
        /\ \A i \in DOMAIN Placed :
              /\ "status" \in DOMAIN Placed[i]
              /\ Placed[i].status = "FAILED"
        /\ PlaceCount > 0 => HasLog("Order failed")

\* C4: a place_order call in live mode with a broker client yields a record
\* with status PENDING and the broker's order id when the broker call
\* returns, and with status FAILED when it raises; the record is appended in
\* both cases and the error stays inside place_order.
C4_LiveOrderOutcome ==
    (Routing /\ mode = "live" /\ BrokerUp) =>
        LET outcomes == SelectSeq(last.calls, IsBrokerOutcome)
        IN  /\ Len(orders) = last.pre.orders + PlaceCount
            /\ Len(outcomes) = PlaceCount
            /\ \A i \in DOMAIN outcomes :
                  IF outcomes[i] = "dhan.returned"
                  THEN /\ {"status", "order_id"} \subseteq DOMAIN Placed[i]
                       /\ Placed[i].status = "PENDING"
                       /\ Placed[i].order_id = BrokerOrderId
                  ELSE /\ "status" \in DOMAIN Placed[i]
                       /\ Placed[i].status = "FAILED"
            /\ (/\ Has(last.calls, "dhan.raised")
                /\ ~Has(last.calls, "callback.raised")
                /\ ~Has(last.calls, "connect.raised")) =>
                  /\ ~HasLog("Tick error")
                  /\ ~HasLog("Start failed")
                  /\ last.op = "start" => last.response.status = 200

\* the broker call raised, the callback that placed the order did not
C4_Witness ==
    /\ Routing /\ mode = "live" /\ BrokerUp
    /\ Has(last.calls, "dhan.raised")
    /\ ~Has(last.calls, "callback.raised")
    /\ Len(Placed) = 1

\* C5: a start request while no strategy is loaded is answered with
\* 'No strategy loaded', and the session is stopped afterwards.
C5_StartWithoutStrategy ==
    (last.op = "start" /\ strategy = None) =>
        /\ last.response = Response(400, "No strategy loaded")
        /\ ~is_running

C5_Witness == last.op = "start" /\ strategy = None /\ mode = "live"

\* C6: a start request while the session runs is answered with
\* 'Already running'; it invokes no initialize and connects no feed, and
\* the session still runs.
C6_SecondStartRejected ==
    (last.op = "start" /\ last.pre.is_running) =>
        /\ last.response = Response(400, "Already running")
        /\ ~Has(last.calls, "initialize")
        /\ ~Has(last.calls, "connect")
        /\ is_running

\* a running session with a feed and an initialize callback is started again
C6_Witness ==
    /\ last.op = "start" /\ last.pre.is_running
    /\ ws_client /\ strategy[1].hasInitialize /\ mode # "backtest"

\* C7: a start request that is rejected with 'No strategy loaded' or
\* 'Already running' leaves mode, is_running and the strategy as they were.
C7_RejectedStartChangesNothing ==
    [][(/\ last'.op = "start"
        /\ last'.response.status = 400
        /\ last'.response.message \in {"No strategy loaded",
                                       "Already running"})
       => /\ mode' = mode
          /\ is_running' = is_running
          /\ strategy' = strategy]_vars

\* C8: a stop request while the session is stopped has no effect: the session
\* stays stopped, the feed connection is not closed and no event is emitted.
C8_StopWhileStoppedNoEffect ==
    (last.op = "stop" /\ ~last.pre.is_running) =>
        /\ ~is_running
        /\ last.calls = <<>>
        /\ last.events = <<>>

\* C9: while the session runs, a strategy is loaded.
C9_RunningHasStrategy == is_running => strategy # None

\* an upload has just failed while the session runs
C9_Witness ==
    /\ is_running
    /\ last.op = "upload" /\ last.response = Response(400, "exception")

\* C10: on_tick of the strategy is invoked once for a tick batch that arrives
\* while the session runs, and not at all for one that arrives while it is
\* stopped.
C10_OnTickOncePerBatch ==
    last.op = "tick" =>
        /\ (is_running /\ HasCallback(strategy, "hasOnTick"))
              => Count(last.calls, "on_tick") = 1
        /\ ~is_running => Count(last.calls, "on_tick") = 0

\* a batch has reached a strategy after a stop and a later start
C10_Witness ==
    /\ last.op = "tick" /\ is_running
    /\ Count(last.calls, "on_tick") = 1
    /\ Len(orders) > last.pre.orders

\* C11: after a call in which a strategy callback raised (initialize within a
\* start, on_tick within a tick batch) the session runs, so that later batches
\* still reach the strategy, and the callback was invoked once within that
\* call: what raised is not delivered again.
C11_CallbackErrorKeepsSession ==
    (Routing /\ Has(last.calls, "callback.raised")) =>
        /\ is_running
        /\ Count(last.calls, "initialize") + Count(last.calls, "on_tick") = 1

\* C12: a place_order call made in backtest mode records what the paper
\* branch would record for the same intent and the same stored quotes: a
\* synthetic order id, status EXECUTED and the executed price of the paper
\* branch.
C12_BacktestAsPaper ==
    (Routing /\ mode = "backtest") =>
        \A i \in DOMAIN Placed :
            LET o == Placed[i]
                intent == Intent(o.symbol, o.quantity, o.side, o.order_type,
                                 o.price)
                h == Heap("paper", market_data, <<>>, clock, FALSE)
                paper == PaperBranch(h, intent).order
            IN  /\ {"order_id", "status", "executed_price"} \subseteq DOMAIN o
                /\ o.order_id[1] = "PAPER"
                /\ o.status = paper.status
                /\ o.executed_price = paper.executed_price

\* C13: once on_tick has handled a batch, the lookup of a symbol the batch
\* quotes returns the quote of the last element of the batch for that symbol,
\* with its price, its volume (0 when it carries none) and the time of this
\* call; the lookup of any other symbol returns what it returned before, a
\* symbol that had no quote still has none, and no other handler changes a
\* lookup.
C13_LastWriteWins ==
    [][IF last'.op = "tick"
       THEN \A s \in Symbols :
               LET upd == Updates(last'.batch, s)
               IN  IF upd # {}
                   THEN LET u == last'.batch[Latest(upd)]
                        IN  get_market_data(market_data', s) =
                               [ltp |-> u.last_traded_price \div 100,
                                volume |->
                                   IF "volume_trade_for_the_day" \in DOMAIN u
                                   THEN u.volume_trade_for_the_day ELSE 0,
                                timestamp |-> clock']
                   ELSE /\ (s \in DOMAIN market_data')
                              = (s \in DOMAIN market_data)
                        /\ get_market_data(market_data', s)
                              = get_market_data(market_data, s)
       ELSE \A s \in Symbols :
               /\ (s \in DOMAIN market_data') = (s \in DOMAIN market_data)
               /\ get_market_data(market_data', s)
                     = get_market_data(market_data, s)]_vars

\* a batch of two quotes of one symbol, the second without volume, was stored
\* over an earlier quote with volume, while an older quote of another symbol
\* is still there and a third symbol was never quoted
C13_Witness ==
    /\ last.op = "tick"
    /\ last.batch = <<Tick1, Tick2>>
    /\ market_data["RELIANCE"].volume = 0
    /\ "TCS" \in DOMAIN market_data
    /\ market_data["TCS"].timestamp < clock
    /\ get_market_data(market_data, "INFY") = EmptyDict

\* C14: an order that on_tick of the strategy places in a running paper
\* session for a symbol the batch quotes is recorded as EXECUTED in paper
\* mode at the price of the last quote of that batch for the symbol: the
\* quotes of the batch are stored before the strategy is invoked.
C14_OrderSeesBatch ==
    (last.op = "tick" /\ is_running /\ mode = "paper") =>
        \A i \in DOMAIN Placed :
            LET o == Placed[i]
                upd == Updates(last.batch, o.symbol)
            IN  upd # {} =>
                   /\ o.mode = "paper"
                   /\ o.status = "EXECUTED"
                   /\ o.executed_price =
                         last.batch[Latest(upd)].last_traded_price \div 100

\* on_tick placed an order with a limit price for the symbol of a batch that
\* carried two different prices for it
C14_Witness ==
    /\ last.op = "tick" /\ is_running /\ mode = "paper"
    /\ last.batch = <<Tick1, Tick2>>
    /\ Len(Placed) = 1
    /\ Placed[1].symbol = "RELIANCE"
    /\ Placed[1].price = Some(300)
    /\ Placed[1].executed_price = 251

\* C15: every stop request, whether the session runs or not and whether a
\* feed client is configured or not, is answered with success and leaves the
\* session stopped, also when close_connection of the feed raises; no error
\* is reported.
C15_StopAlwaysSucceeds ==
    last.op = "stop" =>
        /\ last.response = Response(200, "")
        /\ ~is_running
        /\ \A i \in DOMAIN last.events :
              last.events[i].event = "log" => last.events[i].type # "error"

\* a running session was stopped and close_connection raised
C15_Witness ==
    /\ last.op = "stop" /\ last.pre.is_running
    /\ Has(last.calls, "close.raised")

\* C16: every step leaves the order log as it was or appends to it: the
\* records that were in the log are still there, in their places and
\* unchanged.  The log of every earlier state is then a prefix of the log of
\* every later one.
C16_AppendOnly ==
    [][/\ Len(orders) <= Len(orders')
       /\ SubSeq(orders', 1, Len(orders)) = orders]_vars

\* a call has appended a record to a log that held a different record
C16_Witness ==
    /\ Routing
    /\ last.pre.orders = 1 /\ Len(orders) = 2
    /\ orders[1] # orders[2]

\* C17: any two records of the order log that were placed in paper mode
\* carry different order ids.
C17_PaperIdsUnique ==
    \A i, j \in DOMAIN orders :
        (i < j /\ orders[i].mode = "paper" /\ orders[j].mode = "paper")
            => orders[i].order_id # orders[j].order_id

\* C18: an upload that is rejected, because there is no file, the file name
\* does not end in .py or loading the module raises, leaves the strategy,
\* the mode, is_running, the order log and the stored quotes as they were.
C18_RejectedUploadChangesNothing ==
    [][(last'.op = "upload" /\ last'.response.status = 400)
       => /\ strategy' = strategy
          /\ mode' = mode
          /\ is_running' = is_running
          /\ orders' = orders
          /\ market_data' = market_data]_vars

\* loading a module raised while a strategy was loaded, an order was in the
\* log and a quote was stored
C18_Witness ==
    /\ last.op = "upload" /\ HasLog("Strategy load failed")
    /\ strategy # None
    /\ orders # <<>>
    /\ market_data # EmptyDict

\* C19: a start request that succeeds has connected the feed, once, when a
\* feed client is configured and the mode is not backtest, and has not
\* connected it otherwise; a start request in backtest mode never connects
\* the feed.
C19_FeedActivation ==
    last.op = "start" =>
        /\ last.response.status = 200 =>
              Count(last.calls, "connect") =
                 (IF ws_client /\ mode # "backtest" THEN 1 ELSE 0)
        /\ mode = "backtest" => ~Has(last.calls, "connect")

\* a backtest session was started while a feed client is configured
C19_Witness ==
    /\ last.op = "start" /\ last.response.status = 200
    /\ ws_client /\ mode = "backtest"

\* C20: a callback the loaded module does not define is not invoked and
\* its absence is no error.  A start request on a stopped session whose
\* strategy has no initialize succeeds, unless connecting the feed raises; a
\* batch that arrives in a running session whose strategy has no on_tick is
\* handled without error and its quotes are sent on.  Neither places an
\* order.
C20_AbsentCallbackSkipped ==
    /\ (/\ last.op = "start" /\ ~last.pre.is_running
        /\ strategy # None /\ ~HasCallback(strategy, "hasInitialize")
        /\ ~Has(last.calls, "connect.raised"))
       => /\ ~Has(last.calls, "initialize")
          /\ last.response = Response(200, "")
          /\ is_running
          /\ HasLog("Trading started")
          /\ PlaceCount = 0 /\ Len(orders) = last.pre.orders
    /\ (/\ last.op = "tick" /\ is_running
        /\ strategy # None /\ ~HasCallback(strategy, "hasOnTick"))
       => /\ ~Has(last.calls, "on_tick")
          /\ ~HasLog("Tick error")
          /\ last.events = <<MarketDataEvent(market_data)>>
          /\ PlaceCount = 0 /\ Len(orders) = last.pre.orders

\* a batch arrived in a running session whose strategy defines neither
\* callback
C20_Witness ==
    /\ last.op = "tick" /\ is_running
    /\ strategy = Some([hasInitialize |-> FALSE, hasOnTick |-> FALSE])

\* C21: while a start request has set is_running but its initialize has not
\* returned or the feed is not yet connected, the session does not run and
\* no batch is in on_tick of the strategy.
C21_RunningAfterInitialize ==
    \A t \in RequestThreads :
        threads[t].pc \in {"initialize", "connect"} =>
            /\ ~is_running
            /\ ~(/\ "cb" \in DOMAIN threads[FeedThread]
                 /\ threads[FeedThread].cb = "on_tick")

\* C22: whenever on_tick of the loaded strategy is invoked, initialize of
\* that strategy has been invoked exactly once since it was loaded.
C22_InitializedBeforeOnTick ==
    [][(/\ threads[FeedThread].pc = "dispatch"
        /\ "cb" \in DOMAIN threads'[FeedThread])
       => hist.initialized = 1]_vars

\* C23: a place_order call whose broker call has been made is not aborted,
\* whatever the other threads do and also once is_running is false: every
\* step leaves it where it is or is its own next statement, which ends the
\* broker call, appends its record to the order log or emits it; and the
\* call gets there.
C23_StopDoesNotAbort ==
    /\ [][\A t \in ThreadIds :
             \/ "place" \notin DOMAIN threads[t]
             \/ threads[t].place.pc \in {"build", "route", "route_paper"}
             \/ threads'[t] = threads[t]
             \/ /\ PlaceAt(t, "broker")
                /\ InPlaceAt(threads'[t], "append")
             \/ /\ PlaceAt(t, "append")
                /\ InPlaceAt(threads'[t], "emit")
                /\ orders' = Append(orders, threads[t].place.order)
             \/ /\ PlaceAt(t, "emit")
                /\ "place" \notin DOMAIN threads'[t]
                /\ hist'.emitted =
                      Append(hist.emitted, threads[t].place.order)]_vars
    /\ \A t \in ThreadIds :
          (PlaceAt(t, "broker") /\ ~is_running)
             ~> (/\ "place" \notin DOMAIN threads[t]
                 /\ Len(hist.emitted) > 0)

\* the session was stopped while a place_order call was at the broker, and
\* the call has appended its record since
C23_Witness ==
    /\ ~is_running
    /\ \E t \in ThreadIds :
          /\ PlaceAt(t, "emit")
          /\ threads[t].place.broker
          /\ orders # <<>>
          /\ orders[Len(orders)] = threads[t].place.order

\* a record of hist.appended whose call went to the broker
CalledBroker(a) == a.broker

\* C24: the place_order calls that have appended left one record each, none
\* lost and none twice, and the records of the calls that went to the
\* broker are in the order log in the order in which their broker calls
\* ended.
C24_AppendInCompletionOrder ==
    /\ Len(orders) = Len(hist.appended)
    /\ Len(orders) =
          Len(hist.emitted) + Cardinality({t \in ThreadIds : PlaceAt(t, "emit")})
    /\ LET brokered == SelectSeq(hist.appended, CalledBroker)
       IN  \A i \in DOMAIN brokered : brokered[i].thread = hist.done[i]

\* the quotes that one single update can have stored by now
WholeQuotes ==
    {Quote(token_data, now) : token_data \in {Tick1, Tick2}, now \in 0..clock}

\* C25: whenever a reader looks at the market-data store while the feed
\* thread writes it, the entry of a symbol is the quote of one single
\* update: its last price, volume and timestamp were stored together. This
\* holds of the store in every state and of the quote a strategy callback
\* has read and holds.
C25_QuoteFromOneUpdate ==
    /\ \A s \in DOMAIN market_data : market_data[s] \in WholeQuotes
    /\ \A t \in ThreadIds :
          "seen" \in DOMAIN threads[t] =>
              threads[t].seen \in WholeQuotes \cup {EmptyDict}

\* a callback holds the quote it read while the feed thread, in the middle
\* of a batch, has already replaced it in the store
C25_Witness ==
    /\ threads[FeedThread].pc = "store"
    /\ \E t \in RequestThreads :
          /\ "seen" \in DOMAIN threads[t]
          /\ threads[t].seen \in WholeQuotes
          /\ market_data["RELIANCE"] # threads[t].seen

\* C26: since the last stop (or since the process started), at most one
\* start request has been answered with success, initialize has been invoked
\* at most once and the feed has been connected at most once, however the
\* start requests interleave.
C26_OneStartWins ==
    /\ hist.started <= 1
    /\ hist.inits <= 1
    /\ hist.connects <= 1

\* C27: the mode in a record of the order log tells how the record was
\* made, also when a start request assigned the mode while place_order ran:
\* a record labelled paper was not sent to the broker, has a PAPER id and
\* status EXECUTED; a record labelled live has neither a PAPER id nor the
\* status EXECUTED.
C27_ModeMatchesPath ==
    \A i \in DOMAIN orders :
        LET o == orders[i]
            synthetic == "order_id" \in DOMAIN o /\ o.order_id[1] = "PAPER"
            executed == "status" \in DOMAIN o /\ o.status = "EXECUTED"
        IN  /\ o.mode = "paper" =>
                  ~hist.appended[i].broker /\ synthetic /\ executed
            /\ o.mode = "live" => ~synthetic /\ ~executed

====
